---- MODULE Spec2Model ----
(***************************************************************************)
(* bytebufferpool: a pool of reusable byte buffers that calibrates the     *)
(* capacity of fresh buffers (defaultSize) and the largest capacity it     *)
(* retains (maxSize) from a per-size-class histogram of released lengths.  *)
(*                                                                         *)
(* The repository holds three variants of the pool:                        *)
(*   adjust     src/unnamed/part_001  integer arithmetic, defaultSize      *)
(*                                    adjustment (Pool.Get/Put/calibrate)  *)
(*   rebase     src/unnamed/part_000  float percentile, re-basing of the   *)
(*                                    size classes                         *)
(*   per-class  src/pool.go           one store per class                  *)
(*                                    (byteBufferPool.Acquire/Release)     *)
(* Spec is the concurrent model of the adjust variant, one step per atomic *)
(* operation.  SpecIndex and SpecCal apply the pure parts (the class       *)
(* mapping, the calibration arithmetic of all three variants) to inputs    *)
(* drawn in Init.                                                          *)
(***************************************************************************)
EXTENDS Integers, Sequences, FiniteSets, TLC

VARIABLES
    calls,        \* Pool.calls: class -> releases counted since the last swap
    calibrating,  \* Pool.calibrating: 0 or 1
    defaultSize,  \* Pool.defaultSize
    maxSize,      \* Pool.maxSize (pool level)
    pool,         \* Pool.pool (sync.Pool): the buffers it holds
    blen,         \* buffer -> len(b.B)
    bcap,         \* buffer -> cap(b.B)
    pc,           \* thread -> position in Get / Put / calibrate
    held,         \* thread -> the buffer it owns or is passing to Put (0: none)
    idx,          \* thread -> Put's local idx
    lmax,         \* thread -> Put's local maxSize
    ci,           \* thread -> calibrate's loop counter i
    ca,           \* thread -> calibrate's a, as class -> calls swapped out
    res,          \* thread -> calibrate's locals defaultSize, maxSize
    ops,          \* Get/Put pairs the threads have still to start
    hist,         \* history: thread -> how its last Get, compare-and-swap
                  \* or Put ended
    fnIn,         \* SpecIndex, SpecCal: the input drawn
    fnOut,        \* SpecIndex, SpecCal: the result of the function applied
    added,        \* history: the increments Put has made to the counters
    taken,        \* history: the calls the calibrations have swapped out
    lastLen,      \* history: thread -> len(b.B) of the buffer it last Put,
                  \* until it uses the buffer of its next Get (0: none)
    lastBuf,      \* history: thread -> that buffer, if Put gave it to the
                  \* store (0: none, or Put dropped it)
    idxs,         \* byteBufferPool.idxs, as a sequence: idxs[i + 1] is Go's
                  \* idxs[i]
    pools,        \* byteBufferPool.pools: class -> the buffers its sync.Pool
                  \* holds
    bins          \* re-basing variant: Pool.minBitSize and Pool.minSize

vars == << calls, calibrating, defaultSize, maxSize, pool, blen, bcap, pc,
           held, idx, lmax, ci, ca, res, ops, hist, fnIn, fnOut,
           added, taken, lastLen, lastBuf, idxs, pools, bins >>

poolVars == << calls, calibrating, defaultSize, maxSize, pool, blen, bcap,
               pc, held, idx, lmax, ci, ca, res, ops, hist,
               added, taken, lastLen, lastBuf, idxs, pools, bins >>

(***************************************************************************)
(* Program constants.                                                      *)
(***************************************************************************)
minBitSize == 6

steps == 20

minSize == 2 ^ minBitSize

\* const maxSize = 1 << (minBitSize + steps - 1): the largest class size.
\* (The pool field of the same name is the variable maxSize.)
maxClassSize == 2 ^ (minBitSize + steps - 1)

calibrateCallsThreshold == 42000

\* Denominator of the regular fractions; uint64(0.95 * 100) and
\* uint64((1 - 0.05) * 100) are constant expressions, evaluated exactly.
fractionDenominator == 100

maxPercentileRNumer == 95

maxPercentileGcd == 5

\* The numerator left as it was before the division by the gcd.
maxPercentileNumer_Unreduced == maxPercentileRNumer

maxPercentileNumer == maxPercentileRNumer \div maxPercentileGcd

maxPercentileDenom == fractionDenominator \div maxPercentileGcd

calibrateDefaultSizeAdjustmentsFactorRNumer == 95

calibrateDSASGcd == 5

calibrateDefaultSizeAdjustmentsFactorNumer ==
    calibrateDefaultSizeAdjustmentsFactorRNumer \div calibrateDSASGcd

calibrateDefaultSizeAdjustmentsFactorDenom ==
    fractionDenominator \div calibrateDSASGcd

Classes == 0 .. (steps - 1)

\* minSize << i
\* size: minSize * (i + 1), the classes evenly spaced.
ClassSize_Linear(i) == minSize * (i + 1)

ClassSize(i) == minSize * (2 ^ i)

(***************************************************************************)
(* Machine integers.  n >> k of a signed int is the floor of n / 2^k.      *)
(* A uint64 is represented by the integer of smallest magnitude congruent  *)
(* to it modulo 2^64: the values the pool computes are all within 2^31 of  *)
(* 0 or of 2^64, so a negative representative r stands for 2^64 + r.       *)
(***************************************************************************)
Shr(n, k) == n \div (2 ^ k)

\* a < b of two uint64
U64Less(a, b) ==
    IF (a < 0) = (b < 0) THEN a < b ELSE b < 0

WordBits == 64

(***************************************************************************)
(* index of the adjust variant: n--, n >>= minBitSize, count the bits,     *)
(* clamp to steps - 1.                                                     *)
(***************************************************************************)
RECURSIVE BitLoop(_, _)
BitLoop(n, s) == IF n > 0 THEN BitLoop(Shr(n, 1), s + 1) ELSE s

index_NoDecrement(n) ==
    LET i == BitLoop(Shr(n, minBitSize), 0)
    IN  IF i >= steps THEN steps - 1 ELSE i

index(n) ==
    LET i == BitLoop(Shr(n - 1, minBitSize), 0)
    IN  IF i >= steps THEN steps - 1 ELSE i

(***************************************************************************)
(* index and bitSize of the per-class variant, on uint64: n - 1 wraps at   *)
(* n = 0 and bitSize(n - 1) - minBitSize wraps when bitSize(n - 1) is      *)
(* below minBitSize.                                                       *)
(***************************************************************************)
bitSize(n) == IF n < 0 THEN WordBits ELSE BitLoop(n, 0)

indexU(n) == bitSize(n - 1) - minBitSize

\* byteBufferPool.Release, the class its counter is taken from: idx is a
\* uint64, so idx < 0 never holds.
ReleaseClass(bLen) ==
    LET i == indexU(bLen)
    IN  IF U64Less(i, 0) THEN 0
        ELSE IF ~U64Less(i, steps) THEN steps - 1
        ELSE i

(***************************************************************************)
(* Bounds of the model.                                                    *)
(***************************************************************************)
\* Threads calling Get and Put concurrently.
NThreads == 2

\* Get/Put pairs the threads perform, all together.
MaxOps == 3

\* Init draws a counter that earlier releases have raised from
\* calibrateCallsThreshold - PreloadGap .. calibrateCallsThreshold, or 0.
PreloadGap == 1

Threads == 1 .. NThreads

\* Buffers alive at a time (owned by a thread or held by the pool), at least
\* NThreads: a thread owns at most one.  A buffer nothing refers to is
\* garbage and its identity is free again.  0 stands for nil.
MaxBufs == 2

BufIds == 1 .. MaxBufs

\* The lengths callers grow a buffer to: a full first class, and one byte
\* more (the second class).
Lens == {minSize, minSize + 1}

\* The classes of Lens.
LenClasses == {index(n) : n \in Lens}

PreVals == {0} \cup
    ((calibrateCallsThreshold - PreloadGap) .. calibrateCallsThreshold)

(***************************************************************************)
(* sort.Sort(a) with Less(i, j) = a[i].calls > a[j].calls.  sort.Sort is   *)
(* not stable: the order it leaves classes with equal calls in depends on  *)
(* the library's algorithm.  The model draws that order from TieOrders:    *)
(* equals stay in class order, or come out in the reverse of it.           *)
(***************************************************************************)
TieOrders == {"kept", "reversed"}

\* Whether the sort leaves x before y.
Before(x, y, ord) ==
    \/ x.calls > y.calls
    \/ /\ x.calls = y.calls
       /\ IF ord = "kept" THEN x.size < y.size ELSE x.size > y.size

\* The element of a one-element set.  A loop below binds what an iteration
\* computes as the element of such a set, so that the value is computed once
\* and not once for each later use.
Only(S) == CHOOSE x \in S : TRUE

\* The sorted s with x put in its place.
Place(s, x, ord) ==
    Only({SubSeq(s, 1, k) \o << x >> \o SubSeq(s, k + 1, Len(s)) :
          k \in {Cardinality({p \in 1 .. Len(s) : Before(s[p], x, ord)})}})

RECURSIVE SortFrom(_, _, _, _)
SortFrom(c, i, s, ord) ==
    IF i >= steps THEN s
    ELSE Only({SortFrom(c, i + 1, s2, ord) :
               s2 \in {Place(s, x, ord) :
                          x \in {[calls |-> c[i], size |-> ClassSize(i)]}}})

\* a after the loop that swaps the counters out and sort.Sort(a)
SortedCallSizes(c, ord) == SortFrom(c, 0, << >>, ord)

\* callsSum after the loop that swaps the counters out
RECURSIVE SumCalls(_, _)
SumCalls(c, i) == IF i >= steps THEN 0 ELSE c[i] + SumCalls(c, i + 1)

(***************************************************************************)
(* calibrate of the adjust variant, from the sorted a (a[1] is Go's a[0]). *)
(***************************************************************************)
\* The loop with a break at callsSum >= maxSum.
RECURSIVE AdjustLoop_BreakAtEqual(_, _, _, _, _, _, _)
AdjustLoop_BreakAtEqual(a, i, callsSum, maxSum, thr, d, m) ==
    IF i > steps \/ callsSum >= maxSum
    THEN [defaultSize |-> d, maxSize |-> m]
    ELSE LET size == a[i].size
         IN  Only({AdjustLoop_BreakAtEqual(a, i + 1, c2, maxSum, thr, d2, m2) :
                   c2 \in {callsSum + a[i].calls},
                   d2 \in {IF a[i].calls > thr /\ size > d THEN size ELSE d},
                   m2 \in {IF size > m THEN size ELSE m}})

\* The loop without `if size > maxSize { maxSize = size }`.
RECURSIVE AdjustLoop_NoMax(_, _, _, _, _, _, _)
AdjustLoop_NoMax(a, i, callsSum, maxSum, thr, d, m) ==
    IF i > steps \/ callsSum > maxSum
    THEN [defaultSize |-> d, maxSize |-> m]
    ELSE LET size == a[i].size
         IN  Only({AdjustLoop_NoMax(a, i + 1, c2, maxSum, thr, d2, m) :
                   c2 \in {callsSum + a[i].calls},
                   d2 \in {IF a[i].calls > thr /\ size > d THEN size ELSE d}})

RECURSIVE AdjustLoop(_, _, _, _, _, _, _)
AdjustLoop(a, i, callsSum, maxSum, thr, d, m) ==
    IF i > steps \/ callsSum > maxSum
    THEN [defaultSize |-> d, maxSize |-> m]
    ELSE LET size == a[i].size
         IN  Only({AdjustLoop(a, i + 1, c2, maxSum, thr, d2, m2) :
                   c2 \in {callsSum + a[i].calls},
                   d2 \in {IF a[i].calls > thr /\ size > d THEN size ELSE d},
                   m2 \in {IF size > m THEN size ELSE m}})

\* maxSum := (callsSum * maxPercentileNumer) / maxPercentileDenom
MaxSum(callsSum) == (callsSum * maxPercentileNumer) \div maxPercentileDenom

\* defSizeAdjustCallsThreshold :=
\*     (a[0].calls * calibrateDefaultSizeAdjustmentsFactorNumer)
\*         / calibrateDefaultSizeAdjustmentsFactorDenom
DefSizeAdjustCallsThreshold(c) ==
    (c * calibrateDefaultSizeAdjustmentsFactorNumer)
        \div calibrateDefaultSizeAdjustmentsFactorDenom

CalibrateAdjust(a, callsSum) ==
    Only({AdjustLoop(a, 2, a[1].calls, maxSum, thr, a[1].size, a[1].size) :
          maxSum \in {MaxSum(callsSum)},
          thr \in {DefSizeAdjustCallsThreshold(a[1].calls)}})


(***************************************************************************)
(* The pool after construction (var p Pool: the zero value), before any    *)
(* thread runs.  Earlier releases may have raised the counters of the      *)
(* first two classes to PreVals without crossing the threshold, and        *)
(* sync.Pool may have dropped every buffer they put.                       *)
(***************************************************************************)
ZeroCalls == [i \in Classes |-> 0]

NoHist == [t \in Threads |-> "none"]

NoRes == [defaultSize |-> 0, maxSize |-> 0]

PoolZero ==
    /\ calibrating = 0
    /\ defaultSize = 0
    /\ maxSize = 0
    /\ pool = {}
    /\ blen = [b \in BufIds |-> 0]
    /\ bcap = [b \in BufIds |-> 0]
    /\ pc = [t \in Threads |-> "idle"]
    /\ held = [t \in Threads |-> 0]
    /\ idx = [t \in Threads |-> 0]
    /\ lmax = [t \in Threads |-> 0]
    /\ ci = [t \in Threads |-> 0]
    /\ ca = [t \in Threads |-> ZeroCalls]
    /\ res = [t \in Threads |-> NoRes]
    /\ ops = MaxOps
    /\ hist = NoHist
    /\ taken = 0
    /\ lastLen = [t \in Threads |-> 0]
    /\ lastBuf = [t \in Threads |-> 0]
    /\ idxs = [i \in 1 .. steps |-> 0]
    /\ pools = [i \in Classes |-> {}]
    /\ bins = [minBitSize |-> 0, minSize |-> 0]

NoFn == [kind |-> "none"]

Init ==
    /\ PoolZero
    /\ \E v0 \in PreVals, v1 \in PreVals :
           calls = [i \in Classes |->
                       IF i = 0 THEN v0 ELSE IF i = 1 THEN v1 ELSE 0]
    /\ added = SumCalls(calls, 0)
    /\ fnIn = NoFn
    /\ fnOut = NoFn

\* Buffers no thread owns and the pool does not hold: garbage, or never made.
FreeBufs ==
    ((BufIds \ pool) \ UNION {pools[i] : i \in Classes})
        \ {held[t] : t \in Threads}

\* Whether one more fresh buffer fits the MaxBufs alive at a time, counting
\* those the threads between pool.Get and the allocation are about to make.
Room == Cardinality(FreeBufs) > Cardinality({t \in Threads : pc[t] = "alloc"})

\* &ByteBuffer{...}: a buffer nothing else refers to.
NewBuf == CHOOSE b \in FreeBufs : \A c \in FreeBufs : b <= c

(***************************************************************************)
(* Pool.Get                                                                *)
(***************************************************************************)
\* v := p.pool.Get(): sync.Pool hands out any buffer it holds, or nil (also
\* while other processors' caches hold buffers).  v != nil: return it.
GetPool_NoRemove(t) ==
    /\ pc[t] = "idle"
    /\ ops > 0
    /\ ops' = ops - 1
    /\ \/ \E b \in pool :
              /\ held' = [held EXCEPT ![t] = b]
              /\ pc' = [pc EXCEPT ![t] = "got"]
              /\ hist' = [hist EXCEPT ![t] = "reused"]
              /\ UNCHANGED << lastLen, lastBuf >>
       \/ /\ Room
          /\ pc' = [pc EXCEPT ![t] = "alloc"]
          /\ UNCHANGED << held, hist, lastLen, lastBuf >>
    /\ UNCHANGED << calls, calibrating, defaultSize, maxSize, pool, blen, bcap,
                    idx, lmax, ci, ca, res, fnIn, fnOut,
                    added, taken, idxs, pools, bins >>

GetPool(t) ==
    /\ pc[t] = "idle"
    /\ ops > 0
    /\ ops' = ops - 1
    /\ \/ \E b \in pool :
              /\ pool' = pool \ {b}
              /\ held' = [held EXCEPT ![t] = b]
              /\ pc' = [pc EXCEPT ![t] = "got"]
              /\ hist' = [hist EXCEPT ![t] = "reused"]
              /\ UNCHANGED << lastLen, lastBuf >>
       \/ /\ Room
          /\ pc' = [pc EXCEPT ![t] = "alloc"]
          /\ UNCHANGED << pool, held, hist, lastLen, lastBuf >>
    /\ UNCHANGED << calls, calibrating, defaultSize, maxSize, blen, bcap,
                    idx, lmax, ci, ca, res, fnIn, fnOut,
                    added, taken, idxs, pools, bins >>

\* A Get that waits for a released buffer where the code allocates one.
GetAlloc_Wait(t) ==
    /\ pc[t] = "alloc"
    /\ \E b \in pool :
           /\ pool' = pool \ {b}
           /\ held' = [held EXCEPT ![t] = b]
           /\ hist' = [hist EXCEPT ![t] = "reused"]
    /\ pc' = [pc EXCEPT ![t] = "got"]
    /\ UNCHANGED << lastLen, lastBuf >>
    /\ UNCHANGED << calls, calibrating, defaultSize, maxSize, blen, bcap,
                    idx, lmax, ci, ca, res, ops, fnIn, fnOut,
                    added, taken, idxs, pools, bins >>

\* return &ByteBuffer{B: make([]byte, 0, atomic.LoadUint64(&p.defaultSize))}
GetAlloc(t) ==
    /\ pc[t] = "alloc"
    /\ LET b == NewBuf
       IN  /\ blen' = [blen EXCEPT ![b] = 0]
           /\ bcap' = [bcap EXCEPT ![b] = defaultSize]
           /\ held' = [held EXCEPT ![t] = b]
           /\ hist' = [hist EXCEPT ![t] = "fresh"]
    /\ pc' = [pc EXCEPT ![t] = "got"]
    /\ UNCHANGED << lastLen, lastBuf >>
    /\ UNCHANGED << calls, calibrating, defaultSize, maxSize, pool,
                    idx, lmax, ci, ca, res, ops, fnIn, fnOut,
                    added, taken, idxs, pools, bins >>

(***************************************************************************)
(* The caller, as the tests use the pool: bb.B = allocNBytes(bb.B, n),     *)
(* then Put(bb).  append returns a slice of capacity n or more; the model  *)
(* takes n, the least.                                                     *)
(***************************************************************************)
\* An append that returns a slice one byte short of n.
GrowCaps_Short(n) == {n - 1}

GrowCaps(n) == {n}

Use(t) ==
    /\ pc[t] = "got"
    /\ \E n \in Lens :
        LET b == held[t]
        IN  /\ blen' = [blen EXCEPT ![b] = n]
            /\ IF n <= bcap[b]
               THEN bcap' = bcap
               ELSE \E c \in GrowCaps(n) : bcap' = [bcap EXCEPT ![b] = c]
    /\ pc' = [pc EXCEPT ![t] = "put"]
    /\ lastLen' = [lastLen EXCEPT ![t] = 0]
    /\ lastBuf' = [lastBuf EXCEPT ![t] = 0]
    /\ UNCHANGED << calls, calibrating, defaultSize, maxSize, pool, held,
                    idx, lmax, ci, ca, res, ops, hist, fnIn, fnOut,
                    added, taken, idxs, pools, bins >>

(***************************************************************************)
(* Pool.Put                                                                *)
(***************************************************************************)
\* idx := index(len(b.B));
\* if atomic.AddUint64(&p.calls[idx], 1) > calibrateCallsThreshold { p.calibrate() }
\* Put with the calibration called at >= calibrateCallsThreshold.
PutAdd_AtThreshold(t) ==
    /\ pc[t] = "put"
    /\ LET i == index(blen[held[t]])
       IN  /\ idx' = [idx EXCEPT ![t] = i]
           /\ calls' = [calls EXCEPT ![i] = @ + 1]
           /\ pc' = [pc EXCEPT ![t] =
                       IF calls[i] + 1 >= calibrateCallsThreshold
                       THEN "cas" ELSE "load"]
    /\ added' = added + 1
    /\ UNCHANGED << calibrating, defaultSize, maxSize, pool, blen, bcap, held,
                    lmax, ci, ca, res, ops, hist, fnIn, fnOut,
                    taken, lastLen, lastBuf, idxs, pools, bins >>

\* A Put that never calls calibrate.
PutAdd_NoCalibrate(t) ==
    /\ pc[t] = "put"
    /\ LET i == index(blen[held[t]])
       IN  /\ idx' = [idx EXCEPT ![t] = i]
           /\ calls' = [calls EXCEPT ![i] = @ + 1]
           /\ pc' = [pc EXCEPT ![t] = "load"]
    /\ added' = added + 1
    /\ UNCHANGED << calibrating, defaultSize, maxSize, pool, blen, bcap, held,
                    lmax, ci, ca, res, ops, hist, fnIn, fnOut,
                    taken, lastLen, lastBuf, idxs, pools, bins >>

PutAdd(t) ==
    /\ pc[t] = "put"
    /\ LET i == index(blen[held[t]])
       IN  /\ idx' = [idx EXCEPT ![t] = i]
           /\ calls' = [calls EXCEPT ![i] = @ + 1]
           /\ pc' = [pc EXCEPT ![t] =
                       IF calls[i] + 1 > calibrateCallsThreshold
                       THEN "cas" ELSE "load"]
    /\ added' = added + 1
    /\ UNCHANGED << calibrating, defaultSize, maxSize, pool, blen, bcap, held,
                    lmax, ci, ca, res, ops, hist, fnIn, fnOut,
                    taken, lastLen, lastBuf, idxs, pools, bins >>

\* maxSize := int(atomic.LoadUint64(&p.maxSize))
PutLoad(t) ==
    /\ pc[t] = "load"
    /\ lmax' = [lmax EXCEPT ![t] = maxSize]
    /\ pc' = [pc EXCEPT ![t] = "admit"]
    /\ UNCHANGED << calls, calibrating, defaultSize, maxSize, pool, blen, bcap,
                    held, idx, ci, ca, res, ops, hist, fnIn, fnOut,
                    added, taken, lastLen, lastBuf, idxs, pools, bins >>

\* if maxSize == 0 || cap(b.B) <= maxSize
Admits_Any(m, c) == TRUE

Admits(m, c) == m = 0 \/ c <= m

\* A Put that checks the buffer's length where the code checks its capacity.
PutAdmit_ByLen(t) ==
    /\ pc[t] = "admit"
    /\ LET b == held[t]
       IN  IF Admits(lmax[t], blen[b])
           THEN /\ blen' = [blen EXCEPT ![b] = 0]
                /\ bcap' = bcap
                /\ pool' = pool \cup {b}
                /\ hist' = [hist EXCEPT ![t] = "kept"]
           ELSE /\ blen' = [blen EXCEPT ![b] = 0]
                /\ bcap' = [bcap EXCEPT ![b] = 0]
                /\ pool' = pool
                /\ hist' = [hist EXCEPT ![t] = "dropped"]
    /\ held' = [held EXCEPT ![t] = 0]
    /\ idx' = [idx EXCEPT ![t] = 0]
    /\ lmax' = [lmax EXCEPT ![t] = 0]
    /\ pc' = [pc EXCEPT ![t] = "idle"]
    /\ lastLen' = [lastLen EXCEPT ![t] = blen[held[t]]]
    /\ lastBuf' = [lastBuf EXCEPT ![t] = IF Admits(lmax[t], blen[held[t]])
                                        THEN held[t] ELSE 0]
    /\ UNCHANGED << calls, calibrating, defaultSize, maxSize,
                    ci, ca, res, ops, fnIn, fnOut,
                    added, taken, idxs, pools, bins >>

PutAdmit_NoReset(t) ==
    /\ pc[t] = "admit"
    /\ LET b == held[t]
       IN  IF Admits(lmax[t], bcap[b])
           THEN /\ UNCHANGED << blen, bcap >>
                /\ pool' = pool \cup {b}
                /\ hist' = [hist EXCEPT ![t] = "kept"]
           ELSE /\ blen' = [blen EXCEPT ![b] = 0]
                /\ bcap' = [bcap EXCEPT ![b] = 0]
                /\ pool' = pool
                /\ hist' = [hist EXCEPT ![t] = "dropped"]
    /\ held' = [held EXCEPT ![t] = 0]
    /\ idx' = [idx EXCEPT ![t] = 0]
    /\ lmax' = [lmax EXCEPT ![t] = 0]
    /\ pc' = [pc EXCEPT ![t] = "idle"]
    /\ lastLen' = [lastLen EXCEPT ![t] = blen[held[t]]]
    /\ lastBuf' = [lastBuf EXCEPT ![t] = IF Admits(lmax[t], bcap[held[t]])
                                        THEN held[t] ELSE 0]
    /\ UNCHANGED << calls, calibrating, defaultSize, maxSize,
                    ci, ca, res, ops, fnIn, fnOut,
                    added, taken, idxs, pools, bins >>

\* { b.Reset(); p.pool.Put(b) }, and Put returns.  A buffer not admitted is
\* referred to by nothing once the caller lets go of it.
PutAdmit(t) ==
    /\ pc[t] = "admit"
    /\ LET b == held[t]
       IN  IF Admits(lmax[t], bcap[b])
           THEN /\ blen' = [blen EXCEPT ![b] = 0]
                /\ bcap' = bcap
                /\ pool' = pool \cup {b}
                /\ hist' = [hist EXCEPT ![t] = "kept"]
           ELSE /\ blen' = [blen EXCEPT ![b] = 0]
                /\ bcap' = [bcap EXCEPT ![b] = 0]
                /\ pool' = pool
                /\ hist' = [hist EXCEPT ![t] = "dropped"]
    /\ held' = [held EXCEPT ![t] = 0]
    /\ idx' = [idx EXCEPT ![t] = 0]
    /\ lmax' = [lmax EXCEPT ![t] = 0]
    /\ pc' = [pc EXCEPT ![t] = "idle"]
    /\ lastLen' = [lastLen EXCEPT ![t] = blen[held[t]]]
    /\ lastBuf' = [lastBuf EXCEPT ![t] = IF Admits(lmax[t], bcap[held[t]])
                                        THEN held[t] ELSE 0]
    /\ UNCHANGED << calls, calibrating, defaultSize, maxSize,
                    ci, ca, res, ops, fnIn, fnOut,
                    added, taken, idxs, pools, bins >>

\* sync.Pool frees what it holds at a garbage collection.
PoolGC ==
    /\ \E b \in pool :
        /\ pool' = pool \ {b}
        /\ blen' = [blen EXCEPT ![b] = 0]
        /\ bcap' = [bcap EXCEPT ![b] = 0]
    /\ UNCHANGED << calls, calibrating, defaultSize, maxSize, pc, held,
                    idx, lmax, ci, ca, res, ops, hist, fnIn, fnOut,
                    added, taken, lastLen, lastBuf, idxs, pools, bins >>


(***************************************************************************)
(* Pool.calibrate, called by Put.  A return leads to Put's load of maxSize.*)
(***************************************************************************)
\* if !atomic.CompareAndSwapUint64(&p.calibrating, 0, 1) { return }
CalCAS_NoCompare(t) ==
    /\ pc[t] = "cas"
    /\ calibrating' = 1
    /\ pc' = [pc EXCEPT ![t] = "swap"]
    /\ ci' = [ci EXCEPT ![t] = 0]
    /\ ca' = [ca EXCEPT ![t] = ZeroCalls]
    /\ hist' = [hist EXCEPT ![t] = "won"]
    /\ UNCHANGED << calls, defaultSize, maxSize, pool, blen, bcap, held, idx,
                    lmax, res, ops, fnIn, fnOut,
                    added, taken, lastLen, lastBuf, idxs, pools, bins >>

CalCAS(t) ==
    /\ pc[t] = "cas"
    /\ IF calibrating = 0
       THEN /\ calibrating' = 1
            /\ pc' = [pc EXCEPT ![t] = "swap"]
            /\ ci' = [ci EXCEPT ![t] = 0]
            /\ ca' = [ca EXCEPT ![t] = ZeroCalls]
            /\ hist' = [hist EXCEPT ![t] = "won"]
       ELSE /\ pc' = [pc EXCEPT ![t] = "load"]
            /\ hist' = [hist EXCEPT ![t] = "lost"]
            /\ UNCHANGED << calibrating, ci, ca >>
    /\ UNCHANGED << calls, defaultSize, maxSize, pool, blen, bcap, held, idx,
                    lmax, res, ops, fnIn, fnOut,
                    added, taken, lastLen, lastBuf, idxs, pools, bins >>

\* The classes whose counters a Put of the model can raise; the counters of
\* the other classes are 0 in every state.
Counted == {0, 1} \cup LenClasses

\* One round of the loop: calls := atomic.SwapUint64(&p.calls[i], 0);
\* callsSum += calls; a = append(a, callSize{calls, minSize << i}).
\* The rounds after the last class of Counted swap 0 for 0, whatever the
\* other threads do: they are taken with the round of that class.
\* The loop with atomic.LoadUint64 where the code has atomic.SwapUint64.
CalSwap_LoadOnly(t) ==
    /\ pc[t] = "swap"
    /\ LET i    == ci[t]
           last == \A j \in Counted : j <= i
       IN  /\ ca' = [ca EXCEPT ![t][i] = calls[i]]
           /\ calls' = calls
           /\ ci' = [ci EXCEPT ![t] = IF last THEN steps ELSE i + 1]
           /\ pc' = [pc EXCEPT ![t] = IF last THEN "sort" ELSE "swap"]
    /\ taken' = taken + calls[ci[t]]
    /\ UNCHANGED << calibrating, defaultSize, maxSize, pool, blen, bcap, held,
                    idx, lmax, res, ops, hist, fnIn, fnOut,
                    added, lastLen, lastBuf, idxs, pools, bins >>

CalSwap(t) ==
    /\ pc[t] = "swap"
    /\ LET i    == ci[t]
           last == \A j \in Counted : j <= i
       IN  /\ ca' = [ca EXCEPT ![t][i] = calls[i]]
           /\ calls' = [calls EXCEPT ![i] = 0]
           /\ ci' = [ci EXCEPT ![t] = IF last THEN steps ELSE i + 1]
           /\ pc' = [pc EXCEPT ![t] = IF last THEN "sort" ELSE "swap"]
    /\ taken' = taken + calls[ci[t]]
    /\ UNCHANGED << calibrating, defaultSize, maxSize, pool, blen, bcap, held,
                    idx, lmax, res, ops, hist, fnIn, fnOut,
                    added, lastLen, lastBuf, idxs, pools, bins >>

\* A calibrate that stores 0 to calibrating before it stores maxSize.
CalStoreDefault_Unlocks(t) ==
    /\ pc[t] = "sort"
    /\ \E ord \in TieOrders :
       \E a \in {SortedCallSizes(ca[t], ord)} :
       \E r \in {CalibrateAdjust(a, SumCalls(ca[t], 0))} :
           /\ res' = [res EXCEPT ![t] = r]
           /\ defaultSize' = r.defaultSize
    /\ calibrating' = 0
    /\ pc' = [pc EXCEPT ![t] = "smax"]
    /\ UNCHANGED << calls, maxSize, pool, blen, bcap, held, idx,
                    lmax, ci, ca, ops, hist, fnIn, fnOut,
                    added, taken, lastLen, lastBuf, idxs, pools, bins >>

\* sort.Sort(a), the loop over a, and
\* atomic.StoreUint64(&p.defaultSize, defaultSize)
CalStoreDefault(t) ==
    /\ pc[t] = "sort"
    /\ \E ord \in TieOrders :
       \E a \in {SortedCallSizes(ca[t], ord)} :
       \E r \in {CalibrateAdjust(a, SumCalls(ca[t], 0))} :
           /\ res' = [res EXCEPT ![t] = r]
           /\ defaultSize' = r.defaultSize
    /\ pc' = [pc EXCEPT ![t] = "smax"]
    /\ UNCHANGED << calls, calibrating, maxSize, pool, blen, bcap, held, idx,
                    lmax, ci, ca, ops, hist, fnIn, fnOut,
                    added, taken, lastLen, lastBuf, idxs, pools, bins >>

\* atomic.StoreUint64(&p.maxSize, maxSize)
CalStoreMax(t) ==
    /\ pc[t] = "smax"
    /\ maxSize' = res[t].maxSize
    /\ pc' = [pc EXCEPT ![t] = "unlock"]
    /\ UNCHANGED << calls, calibrating, defaultSize, pool, blen, bcap, held,
                    idx, lmax, ci, ca, res, ops, hist, fnIn, fnOut,
                    added, taken, lastLen, lastBuf, idxs, pools, bins >>

\* atomic.StoreUint64(&p.calibrating, 0), and calibrate returns
CalUnlock(t) ==
    /\ pc[t] = "unlock"
    /\ calibrating' = 0
    /\ pc' = [pc EXCEPT ![t] = "load"]
    /\ ci' = [ci EXCEPT ![t] = 0]
    /\ ca' = [ca EXCEPT ![t] = ZeroCalls]
    /\ res' = [res EXCEPT ![t] = NoRes]
    /\ UNCHANGED << calls, defaultSize, maxSize, pool, blen, bcap, held, idx,
                    lmax, ops, hist, fnIn, fnOut,
                    added, taken, lastLen, lastBuf, idxs, pools, bins >>

(***************************************************************************)
(* The concurrent pool                                                     *)
(***************************************************************************)
Step(t) ==
    \/ GetPool(t)
    \/ GetAlloc(t)
    \/ Use(t)
    \/ PutAdd(t)
    \/ CalCAS(t)
    \/ CalSwap(t)
    \/ CalStoreDefault(t)
    \/ CalStoreMax(t)
    \/ CalUnlock(t)
    \/ PutLoad(t)
    \/ PutAdmit(t)

Next == PoolGC \/ \E t \in Threads : Step(t)

Spec == Init /\ [][Next]_vars

\* Every thread that can take a step eventually takes one: the Go scheduler
\* runs every runnable goroutine.
FairSpec == Spec /\ \A t \in Threads : WF_vars(Step(t))

\* A single-threaded execution: thread 1 alone calls Get and Put.
NextSeq == PoolGC \/ Step(1)

SpecSeq == Init /\ [][NextSeq]_vars


(***************************************************************************)
(* calibrate of the rebase variant, after its sort.  maxSum is             *)
(* uint64(float64(callsSum) * maxPercentile): 0.95 as a float64 is         *)
(* (19 * 2^53 - 8) / (20 * 2^53), so the product lies less than half a     *)
(* unit in the last place below callsSum * 19 / 20; it rounds to that      *)
(* value where it is an integer and stays strictly between its two         *)
(* neighbouring integers where it is not (callsSum < 2^40), and the        *)
(* conversion truncates to the floor of callsSum * 95 / 100.               *)
(***************************************************************************)
FloatPercentile(callsSum) ==
    (callsSum * maxPercentileRNumer) \div fractionDenominator

RECURSIVE RebaseLoop(_, _, _, _, _)
RebaseLoop(a, i, callsSum, maxSum, m) ==
    IF i > steps \/ callsSum > maxSum
    THEN m
    ELSE RebaseLoop(a, i + 1, callsSum + a[i].calls, maxSum,
                    IF a[i].size > m THEN a[i].size ELSE m)

CalibrateRebase(a, callsSum) ==
    [defaultSize |-> a[1].size,
     maxSize     |-> RebaseLoop(a, 1, 0, FloatPercentile(callsSum), a[1].size)]

(***************************************************************************)
(* calibrate of the per-class variant, after its sort: the loop runs over  *)
(* all of a and stores idxs[i], the class of a[i] while the sum has not    *)
(* passed maxSum and steps after that.                                     *)
(***************************************************************************)
RECURSIVE PerClassLoop(_, _, _, _, _, _)
PerClassLoop(a, i, callsSum, maxSum, m, ix) ==
    IF i > steps
    THEN [maxSize |-> m, idxs |-> ix]
    ELSE IF callsSum <= maxSum
         THEN PerClassLoop(a, i + 1, callsSum + a[i].calls, maxSum,
                           IF a[i].size > m THEN a[i].size ELSE m,
                           Append(ix, indexU(a[i].size)))
         ELSE PerClassLoop(a, i + 1, callsSum, maxSum, m, Append(ix, steps))

CalibratePerClass(a, callsSum) ==
    LET r == PerClassLoop(a, 1, 0, FloatPercentile(callsSum), a[1].size, << >>)
    IN  [defaultSize |-> a[1].size, maxSize |-> r.maxSize, idxs |-> r.idxs]

(***************************************************************************)
(* SpecIndex: the class mappings applied to a pair of lengths lo <= hi.    *)
(***************************************************************************)
\* Every class boundary, its neighbours, and the lengths around the least
\* length whose bitSize reaches minBitSize.
IndexInputs ==
    {0, 1, minSize \div 2, minSize \div 2 + 1, 2 * maxClassSize}
        \cup {ClassSize(i) + d : i \in Classes, d \in {-1, 0, 1}}

InitIndex ==
    /\ PoolZero
    /\ calls = ZeroCalls
    /\ added = 0
    /\ \E a \in IndexInputs, b \in IndexInputs :
           /\ a <= b
           /\ fnIn = [kind |-> "lens", lo |-> a, hi |-> b]
    /\ fnOut = NoFn

\* index(n) of the adjust variant
ApplyIndex ==
    /\ fnOut.kind = "none"
    /\ fnOut' = [kind |-> "index", lo |-> index(fnIn.lo), hi |-> index(fnIn.hi)]
    /\ UNCHANGED << poolVars, fnIn >>

\* The class byteBufferPool.Release counts a buffer of length n in
ApplyRelease ==
    /\ fnOut.kind = "none"
    /\ fnOut' = [kind |-> "release",
                 lo |-> ReleaseClass(fnIn.lo), hi |-> ReleaseClass(fnIn.hi)]
    /\ UNCHANGED << poolVars, fnIn >>

NextIndex == ApplyIndex \/ ApplyRelease

SpecIndex == InitIndex /\ [][NextIndex]_vars

(***************************************************************************)
(* SpecCal: the three calibrations applied to a snapshot of the counters   *)
(* and an order of its ties.  A snapshot gives every class the count base  *)
(* but two classes drawn from CalClasses, which get counts of CalVals.     *)
(* Every such snapshot can be swapped out by a calibration: a counter      *)
(* passes the threshold by one in a run of one thread, and a thread that   *)
(* is delayed between its increment and its compare-and-swap calibrates    *)
(* whatever has been counted since another thread's calibration.           *)
(***************************************************************************)
\* The least count within 5% of a top class of calibrateCallsThreshold + 1
NearTop ==
    ((calibrateCallsThreshold + 1) * calibrateDefaultSizeAdjustmentsFactorNumer)
        \div calibrateDefaultSizeAdjustmentsFactorDenom + 1

CalBases == {0, NearTop, calibrateCallsThreshold}

CalVals ==
    {0, 1, calibrateCallsThreshold \div maxPercentileDenom, NearTop - 1,
     NearTop, calibrateCallsThreshold - 10, calibrateCallsThreshold,
     calibrateCallsThreshold + 1}

CalClasses == {0, 1, 3, steps - 1}

InitCal ==
    /\ PoolZero
    /\ calls = ZeroCalls
    /\ added = 0
    /\ \E base \in CalBases, i1 \in CalClasses, i2 \in CalClasses,
          v1 \in CalVals, v2 \in CalVals, ord \in TieOrders :
           /\ i1 < i2
           /\ fnIn = [kind |-> "snap", ord |-> ord,
                      c |-> [i \in Classes |->
                                IF i = i1 THEN v1 ELSE IF i = i2 THEN v2
                                ELSE base]]
    /\ fnOut = NoFn

ApplyAdjust ==
    /\ fnOut.kind = "none"
    /\ \E a \in {SortedCallSizes(fnIn.c, fnIn.ord)} :
       \E r \in {CalibrateAdjust(a, SumCalls(fnIn.c, 0))} :
           fnOut' = [kind |-> "adjust", a |-> a,
                     defaultSize |-> r.defaultSize, maxSize |-> r.maxSize]
    /\ UNCHANGED << poolVars, fnIn >>

ApplyRebase ==
    /\ fnOut.kind = "none"
    /\ \E a \in {SortedCallSizes(fnIn.c, fnIn.ord)} :
       \E r \in {CalibrateRebase(a, SumCalls(fnIn.c, 0))} :
           fnOut' = [kind |-> "rebase", a |-> a,
                     defaultSize |-> r.defaultSize, maxSize |-> r.maxSize]
    /\ UNCHANGED << poolVars, fnIn >>

ApplyPerClass ==
    /\ fnOut.kind = "none"
    /\ \E a \in {SortedCallSizes(fnIn.c, fnIn.ord)} :
       \E r \in {CalibratePerClass(a, SumCalls(fnIn.c, 0))} :
           fnOut' = [kind |-> "perclass", a |-> a,
                     defaultSize |-> r.defaultSize, maxSize |-> r.maxSize]
    /\ UNCHANGED << poolVars, fnIn >>

NextCal == ApplyAdjust \/ ApplyRebase \/ ApplyPerClass

SpecCal == InitCal /\ [][NextCal]_vars


(***************************************************************************)
(* SpecArith: calibrate's integer arithmetic applied to a sum of calls.    *)
(* The sums drawn are the ArithSpan + 1 least and the ArithSpan + 1        *)
(* greatest of 0 .. callsSumMaxValue: every remainder by                   *)
(* fractionDenominator, at both ends of the range.                         *)
(***************************************************************************)
callsSumMaxValue == steps * calibrateCallsThreshold

ArithSpan == 100

ArithInputs ==
    (0 .. ArithSpan) \cup ((callsSumMaxValue - ArithSpan) .. callsSumMaxValue)

InitArith ==
    /\ PoolZero
    /\ calls = ZeroCalls
    /\ added = 0
    /\ \E x \in ArithInputs : fnIn = [kind |-> "sum", callsSum |-> x]
    /\ fnOut = NoFn

\* maxSum, with the product the division is applied to
ApplyMaxSum ==
    /\ fnIn.kind = "sum"
    /\ fnOut.kind = "none"
    /\ fnOut' = [kind |-> "maxSum",
                 product |-> fnIn.callsSum * maxPercentileNumer,
                 quotient |-> MaxSum(fnIn.callsSum)]
    /\ UNCHANGED << poolVars, fnIn >>

\* defSizeAdjustCallsThreshold, likewise
ApplyThreshold ==
    /\ fnIn.kind = "sum"
    /\ fnOut.kind = "none"
    /\ fnOut' = [kind |-> "threshold",
                 product |-> fnIn.callsSum
                                 * calibrateDefaultSizeAdjustmentsFactorNumer,
                 quotient |-> DefSizeAdjustCallsThreshold(fnIn.callsSum)]
    /\ UNCHANGED << poolVars, fnIn >>

NextArith == ApplyMaxSum \/ ApplyThreshold

SpecArith == InitArith /\ [][NextArith]_vars


(***************************************************************************)
(* SpecLen: Pool.GetLen of the rebase variant, called once by thread 1 on  *)
(* a store that is empty or holds one buffer.  That variant's Put stores   *)
(* a buffer without resetting it, so a stored buffer has any length up to  *)
(* its capacity.                                                           *)
(***************************************************************************)
\* The s of GetLen(s): 0, 1, and the sizes around the first three classes.
GetLenSizes ==
    {0, 1} \cup {ClassSize(i) + d : i \in 0 .. 2, d \in {-1, 0, 1}}

\* The capacities of the buffer the store holds.
GetLenCaps == {0} \cup {ClassSize(i) : i \in 0 .. 2}

InitLen ==
    /\ calibrating = 0
    /\ defaultSize = 0
    /\ maxSize = 0
    /\ pc = [t \in Threads |-> "idle"]
    /\ held = [t \in Threads |-> 0]
    /\ idx = [t \in Threads |-> 0]
    /\ lmax = [t \in Threads |-> 0]
    /\ ci = [t \in Threads |-> 0]
    /\ ca = [t \in Threads |-> ZeroCalls]
    /\ res = [t \in Threads |-> NoRes]
    /\ ops = MaxOps
    /\ hist = NoHist
    /\ taken = 0
    /\ lastLen = [t \in Threads |-> 0]
    /\ lastBuf = [t \in Threads |-> 0]
    /\ idxs = [i \in 1 .. steps |-> 0]
    /\ pools = [i \in Classes |-> {}]
    /\ bins = [minBitSize |-> 0, minSize |-> 0]
    /\ calls = ZeroCalls
    /\ added = 0
    /\ \E n \in GetLenSizes :
        \/ /\ pool = {}
           /\ blen = [b \in BufIds |-> 0]
           /\ bcap = [b \in BufIds |-> 0]
           /\ fnIn = [kind |-> "getlen", s |-> n, cap |-> -1]
        \/ \E c \in GetLenCaps : \E l \in {0, c} :
              /\ pool = {1}
              /\ blen = [b \in BufIds |-> IF b = 1 THEN l ELSE 0]
              /\ bcap = [b \in BufIds |-> IF b = 1 THEN c ELSE 0]
              /\ fnIn = [kind |-> "getlen", s |-> n, cap |-> c]
    /\ fnOut = NoFn

\* A GetLen that keeps the slice of a stored buffer too small for s.
GetLen_NoGrow(t) ==
    /\ pc[t] = "idle"
    /\ fnIn.kind = "getlen"
    /\ \/ /\ Room
          /\ LET b == NewBuf
             IN  /\ blen' = [blen EXCEPT ![b] = fnIn.s]
                 /\ bcap' = [bcap EXCEPT ![b] = fnIn.s]
                 /\ held' = [held EXCEPT ![t] = b]
          /\ pool' = pool
          /\ hist' = [hist EXCEPT ![t] = "fresh"]
       \/ \E b \in pool :
             /\ pool' = pool \ {b}
             /\ blen' = [blen EXCEPT ![b] = fnIn.s]
             /\ bcap' = bcap
             /\ held' = [held EXCEPT ![t] = b]
             /\ hist' = [hist EXCEPT ![t] = "reused"]
    /\ pc' = [pc EXCEPT ![t] = "got"]
    /\ fnOut' = [kind |-> "getlen"]
    /\ UNCHANGED << calls, calibrating, defaultSize, maxSize,
                    idx, lmax, ci, ca, res, ops, fnIn,
                    added, taken, lastLen, lastBuf, idxs, pools, bins >>

\* v := p.pool.Get()
\* if v == nil { return &ByteBuffer{B: make([]byte, s)} }
\* b := v.(*ByteBuffer)
\* if cap(b.B) < s { b.B = make([]byte, s) } else { b.B = b.B[:s] }
\* return b
GetLen(t) ==
    /\ pc[t] = "idle"
    /\ fnIn.kind = "getlen"
    /\ \/ /\ Room
          /\ LET b == NewBuf
             IN  /\ blen' = [blen EXCEPT ![b] = fnIn.s]
                 /\ bcap' = [bcap EXCEPT ![b] = fnIn.s]
                 /\ held' = [held EXCEPT ![t] = b]
          /\ pool' = pool
          /\ hist' = [hist EXCEPT ![t] = "fresh"]
       \/ \E b \in pool :
             /\ pool' = pool \ {b}
             /\ blen' = [blen EXCEPT ![b] = fnIn.s]
             /\ bcap' = [bcap EXCEPT ![b] =
                            IF bcap[b] < fnIn.s THEN fnIn.s ELSE bcap[b]]
             /\ held' = [held EXCEPT ![t] = b]
             /\ hist' = [hist EXCEPT ![t] = "reused"]
    /\ pc' = [pc EXCEPT ![t] = "got"]
    /\ fnOut' = [kind |-> "getlen"]
    /\ UNCHANGED << calls, calibrating, defaultSize, maxSize,
                    idx, lmax, ci, ca, res, ops, fnIn,
                    added, taken, lastLen, lastBuf, idxs, pools, bins >>

NextLen == GetLen(1)

SpecLen == InitLen /\ [][NextLen]_vars


(***************************************************************************)
(* SpecPC: the per-class pool (byteBufferPool), each of Acquire and        *)
(* Release run by a thread as one step, from the zero value with the       *)
(* counters of Init.  Callers leave a buffer empty or grow it to one of    *)
(* Lens.  An index outside pools is a run-time panic, which ends the       *)
(* program.                                                                *)
(***************************************************************************)
FillLens == {0} \cup Lens

NoPanic == \A t \in Threads : pc[t] # "panic"

\* The number of entries of idxs that Acquire's loop reads before one that
\* is steps or more.
RECURSIVE ScanLen(_, _)
ScanLen(ix, i) ==
    IF i > steps \/ ~U64Less(ix[i], steps) THEN i - 1 ELSE ScanLen(ix, i + 1)

\* for i := 0; i < steps; i++ {
\*     idx := atomic.LoadUint64(&p.idxs[i]); if idx >= steps { break }
\*     v := p.pools[idx].Get(); if v != nil { return v.(*ByteBuffer) } }
\* return &ByteBuffer{B: make([]byte, 0, atomic.LoadUint64(&p.defaultSize))}
\* sync.Pool's Get may return nil from a store that holds a buffer.
Acquire(t) ==
    /\ pc[t] = "idle"
    /\ NoPanic
    /\ ops > 0
    /\ ops' = ops - 1
    /\ \/ \E i \in 1 .. ScanLen(idxs, 1) : \E b \in pools[idxs[i]] :
             /\ pools' = [pools EXCEPT ![idxs[i]] = @ \ {b}]
             /\ held' = [held EXCEPT ![t] = b]
             /\ hist' = [hist EXCEPT ![t] = "reused"]
             /\ UNCHANGED << blen, bcap >>
       \/ /\ Room
          /\ LET b == NewBuf
             IN  /\ blen' = [blen EXCEPT ![b] = 0]
                 /\ bcap' = [bcap EXCEPT ![b] = defaultSize]
                 /\ held' = [held EXCEPT ![t] = b]
          /\ hist' = [hist EXCEPT ![t] = "fresh"]
          /\ pools' = pools
    /\ pc' = [pc EXCEPT ![t] = "got"]
    /\ UNCHANGED << calls, calibrating, defaultSize, maxSize, pool,
                    idx, lmax, ci, ca, res, fnIn, fnOut,
                    added, taken, lastLen, lastBuf, idxs, bins >>

\* The caller: bb.B = allocNBytes(bb.B, n), or nothing written.
Fill(t) ==
    /\ pc[t] = "got"
    /\ NoPanic
    /\ \E n \in FillLens :
        LET b == held[t]
        IN  /\ blen' = [blen EXCEPT ![b] = n]
            /\ IF n <= bcap[b]
               THEN bcap' = bcap
               ELSE \E c \in GrowCaps(n) : bcap' = [bcap EXCEPT ![b] = c]
    /\ pc' = [pc EXCEPT ![t] = "put"]
    /\ UNCHANGED << calls, calibrating, defaultSize, maxSize, pool, held,
                    idx, lmax, ci, ca, res, ops, hist, fnIn, fnOut,
                    added, taken, lastLen, lastBuf, idxs, pools, bins >>

\* What Release's call of calibrate leaves, c being the counters after
\* Release's increment: the guard is free at every step of SpecPC.
ReleaseCalibrate(c, i, ord) ==
    IF c[i] > calibrateCallsThreshold
    THEN [calibrated |-> TRUE,
          r |-> CalibratePerClass(SortedCallSizes(c, ord), SumCalls(c, 0))]
    ELSE [calibrated |-> FALSE,
          r |-> [defaultSize |-> defaultSize, maxSize |-> maxSize,
                 idxs |-> idxs]]

\* bLen := uint64(len(b.B)); idx := index(bLen); clamp idx;
\* if atomic.AddUint64(&p.calls[idx], 1) > calibrateCallsThreshold
\*     { p.calibrate() }
\* maxSize := atomic.LoadUint64(&p.maxSize); bCap := uint64(cap(b.B))
\* if maxSize > 0 && bCap <= maxSize
\*     { idx = index(bCap); b.B = b.B[:0]; p.pools[idx].Put(b) }
\* p.pools[idx] with idx outside 0 .. steps - 1 panics.
Release(t) ==
    /\ pc[t] = "put"
    /\ NoPanic
    /\ \E ord \in TieOrders :
       \E i \in {ReleaseClass(blen[held[t]])} :
       \E c \in {[calls EXCEPT ![i] = @ + 1]} :
       \E cal \in {ReleaseCalibrate(c, i, ord)} :
       \E j \in {indexU(bcap[held[t]])} :
           /\ calls' = IF cal.calibrated THEN ZeroCalls ELSE c
           /\ added' = added + 1
           /\ taken' = IF cal.calibrated THEN taken + SumCalls(c, 0) ELSE taken
           /\ defaultSize' = cal.r.defaultSize
           /\ maxSize' = cal.r.maxSize
           /\ idxs' = cal.r.idxs
           /\ idx' = [idx EXCEPT ![t] = i]
           /\ IF cal.r.maxSize > 0 /\ bcap[held[t]] <= cal.r.maxSize
              THEN IF j \in Classes
                   THEN /\ blen' = [blen EXCEPT ![held[t]] = 0]
                        /\ bcap' = bcap
                        /\ pools' = [pools EXCEPT ![j] = @ \cup {held[t]}]
                        /\ pc' = [pc EXCEPT ![t] = "idle"]
                        /\ hist' = [hist EXCEPT ![t] = "kept"]
                   ELSE /\ blen' = [blen EXCEPT ![held[t]] = 0]
                        /\ bcap' = [bcap EXCEPT ![held[t]] = 0]
                        /\ pools' = pools
                        /\ pc' = [pc EXCEPT ![t] = "panic"]
                        /\ hist' = [hist EXCEPT ![t] = "panic"]
              ELSE /\ blen' = [blen EXCEPT ![held[t]] = 0]
                   /\ bcap' = [bcap EXCEPT ![held[t]] = 0]
                   /\ pools' = pools
                   /\ pc' = [pc EXCEPT ![t] = "idle"]
                   /\ hist' = [hist EXCEPT ![t] = "dropped"]
    /\ held' = [held EXCEPT ![t] = 0]
    /\ UNCHANGED << calibrating, pool, lmax, ci, ca, res, ops, fnIn, fnOut,
                    lastLen, lastBuf, bins >>

\* A sync.Pool frees what it holds at a garbage collection.
PoolsGC ==
    /\ NoPanic
    /\ \E k \in Classes : \E b \in pools[k] :
        /\ pools' = [pools EXCEPT ![k] = @ \ {b}]
        /\ blen' = [blen EXCEPT ![b] = 0]
        /\ bcap' = [bcap EXCEPT ![b] = 0]
    /\ UNCHANGED << calls, calibrating, defaultSize, maxSize, pool, pc, held,
                    idx, lmax, ci, ca, res, ops, hist, fnIn, fnOut,
                    added, taken, lastLen, lastBuf, idxs, bins >>

StepPC(t) == Acquire(t) \/ Fill(t) \/ Release(t)

NextPC == PoolsGC \/ \E t \in Threads : StepPC(t)

SpecPC == Init /\ [][NextPC]_vars

(***************************************************************************)
(* Re-basing variant: Put and calibrate with the bins they resize.  The    *)
(* two Pool fields are bins.minBitSize and bins.minSize; each load and     *)
(* each store of them is a step of its own, as nothing but the calibrating *)
(* flag orders them, and Put takes no flag.                                *)
(***************************************************************************)
defaultMinBitSize == 6

\* minBitSize + steps < 32
sizeBits == 32

\* The values minBitSize has before Put starts: 0 in the zero Pool, else
\* what initBins and earlier calibrations stored.
BinBits == {0} \cup (defaultMinBitSize .. (sizeBits - steps))

\* index(minBitSize, n)
indexBins(b, n) ==
    LET i == BitLoop(Shr(n - 1, b), 0)
    IN  IF i >= steps THEN steps - 1 ELSE i

\* The integers of the model end at 2^31 - 1
IntMax == (2 ^ 30 - 1) + 2 ^ 30

\* ms << i, given as u = 2^i.  The one size of this variant that is past
\* IntMax, 2^12 << 19 = 2^31, is held as IntMax: lengths and capacities stay
\* below it, so every comparison with it comes out as with 2^31.
ShlSize(ms, u) ==
    IF ms > 0 /\ u >= (2 ^ 30 \div ms) * 2 THEN IntMax ELSE ms * u

(***************************************************************************)
(* calibrate's locals defaultSize and maxSize.  a[i].size is ms << i, ms   *)
(* being the minSize the loop read; the sort and the loop after it compare *)
(* these sizes as they compare minSize << i of SortedCallSizes, so the two *)
(* sizes chosen are those of CalibrateRebase shifted from minSize to ms.   *)
(***************************************************************************)
CalibrateBins(c, ms, ord) ==
    LET r == Only({CalibrateRebase(a, SumCalls(c, 0)) :
                   a \in {SortedCallSizes(c, ord)}})
    IN  [defaultSize |-> ShlSize(ms, r.defaultSize \div minSize),
         maxSize     |-> ShlSize(ms, r.maxSize \div minSize)]

\* The counters earlier releases have raised: class 1 is one release from a
\* calibration, classes 0, steps - 2 and steps - 1 decide the resize.
BinsCalls(c0, c18, c19) ==
    [i \in Classes |->
        IF i = 0 THEN c0
        ELSE IF i = 1 THEN calibrateCallsThreshold
        ELSE IF i = steps - 2 THEN c18
        ELSE IF i = steps - 1 THEN c19
        ELSE 0]

(***************************************************************************)
(* Each thread is about to Put a buffer of its own, whose length is the    *)
(* first class's size or one more.  The Pool is the zero Pool, or one that *)
(* earlier releases and calibrations have left with minBitSize = m; in     *)
(* that one the second thread may be a Put that found minBitSize = 0 when  *)
(* the Pool was new and has not yet run its initBins.                      *)
(***************************************************************************)
InitBins ==
    /\ \E m \in BinBits :
       \E ms \in {IF m = 0 THEN 0 ELSE 2 ^ m} :
       \E ls \in [Threads -> {0, 1}] :
           /\ bins = [minBitSize |-> m, minSize |-> ms]
           /\ defaultSize = (IF m > defaultMinBitSize THEN ms ELSE 0)
           /\ maxSize = (IF m > defaultMinBitSize THEN ms ELSE 0)
           /\ blen = [b \in BufIds |->
                         IF b \in Threads
                         THEN (IF m = 0 THEN 2 ^ defaultMinBitSize ELSE ms)
                              + ls[b]
                         ELSE 0]
           /\ bcap = blen
           /\ IF m = 0
              THEN /\ calls = ZeroCalls
                   /\ pc = [t \in Threads |-> "bput"]
              ELSE /\ \E c0 \in {0, 1}, c18 \in {0, 1}, c19 \in {0, 2} :
                          calls = BinsCalls(c0, c18, c19)
                   /\ \E p2 \in {"bput", "binit"} :
                          pc = [t \in Threads |->
                                   IF t = 2 THEN p2 ELSE "bput"]
    /\ calibrating = 0
    /\ pool = {}
    /\ held = [t \in Threads |-> IF t \in BufIds THEN t ELSE 0]
    /\ idx = [t \in Threads |-> 0]
    /\ lmax = [t \in Threads |-> 0]
    /\ ci = [t \in Threads |-> 0]
    /\ ca = [t \in Threads |-> ZeroCalls]
    /\ res = [t \in Threads |-> NoRes]
    /\ ops = 0
    /\ hist = NoHist
    /\ added = SumCalls(calls, 0)
    /\ taken = 0
    /\ lastLen = [t \in Threads |-> 0]
    /\ lastBuf = [t \in Threads |-> 0]
    /\ idxs = [i \in 1 .. steps |-> 0]
    /\ pools = [i \in Classes |-> {}]
    /\ fnIn = NoFn
    /\ fnOut = NoFn

\* Put: if p.minBitSize == 0
BinsPutCheck(t) ==
    /\ pc[t] = "bput"
    /\ held[t] # 0
    /\ pc' = [pc EXCEPT ![t] =
                 IF bins.minBitSize = 0 THEN "binit" ELSE "bidx"]
    /\ UNCHANGED << calls, calibrating, defaultSize, maxSize, pool, blen,
                    bcap, held, idx, lmax, ci, ca, res, ops, hist, fnIn,
                    fnOut, added, taken, lastLen, lastBuf, idxs, pools,
                    bins >>

\* initBins: atomic.StoreUint64(&p.minBitSize, defaultMinBitSize)
BinsInitBits(t) ==
    /\ pc[t] = "binit"
    /\ bins' = [bins EXCEPT !.minBitSize = defaultMinBitSize]
    /\ pc' = [pc EXCEPT ![t] = "binit2"]
    /\ UNCHANGED << calls, calibrating, defaultSize, maxSize, pool, blen,
                    bcap, held, idx, lmax, ci, ca, res, ops, hist, fnIn,
                    fnOut, added, taken, lastLen, lastBuf, idxs, pools >>

\* initBins: atomic.StoreUint64(&p.minSize, 1<<defaultMinBitSize)
BinsInitSize(t) ==
    /\ pc[t] = "binit2"
    /\ bins' = [bins EXCEPT !.minSize = 2 ^ defaultMinBitSize]
    /\ pc' = [pc EXCEPT ![t] = "bidx"]
    /\ UNCHANGED << calls, calibrating, defaultSize, maxSize, pool, blen,
                    bcap, held, idx, lmax, ci, ca, res, ops, hist, fnIn,
                    fnOut, added, taken, lastLen, lastBuf, idxs, pools >>

\* Put: idx := index(p.minBitSize, len(b.B)) and the atomic.AddUint64
BinsPutAdd(t) ==
    /\ pc[t] = "bidx"
    /\ \E i \in {indexBins(bins.minBitSize, blen[held[t]])} :
           /\ idx' = [idx EXCEPT ![t] = i]
           /\ calls' = [calls EXCEPT ![i] = @ + 1]
           /\ pc' = [pc EXCEPT ![t] =
                        IF calls[i] + 1 > calibrateCallsThreshold
                        THEN "bcas" ELSE "bload"]
    /\ added' = added + 1
    /\ UNCHANGED << calibrating, defaultSize, maxSize, pool, blen, bcap,
                    held, lmax, ci, ca, res, ops, hist, fnIn, fnOut,
                    taken, lastLen, lastBuf, idxs, pools, bins >>

\* calibrate: the compare-and-swap, and in the winner the test of
\* p.minBitSize == 0 with its initBins (no Put gets here before its own
\* initBins, so the test fails).  fnIn is history here: the minBitSize the
\* calibration starts from.
BinsCAS(t) ==
    /\ pc[t] = "bcas"
    /\ IF calibrating = 0
       THEN /\ calibrating' = 1
            /\ bins' = (IF bins.minBitSize = 0
                        THEN [minBitSize |-> defaultMinBitSize,
                              minSize    |-> 2 ^ defaultMinBitSize]
                        ELSE bins)
            /\ fnIn' = [kind |-> "calibrate", minBitSize |-> bins'.minBitSize]
            /\ pc' = [pc EXCEPT ![t] = "bswap"]
            /\ hist' = [hist EXCEPT ![t] = "won"]
       ELSE /\ UNCHANGED << calibrating, bins, fnIn >>
            /\ pc' = [pc EXCEPT ![t] = "bload"]
            /\ hist' = [hist EXCEPT ![t] = "lost"]
    /\ UNCHANGED << calls, defaultSize, maxSize, pool, blen, bcap, held,
                    idx, lmax, ci, ca, res, ops, fnOut,
                    added, taken, lastLen, lastBuf, idxs, pools >>

\* calibrate: the loop that swaps the counters out and reads p.minSize, and
\* what the sort and the loop over a make of it (locals only).
BinsSwap(t) ==
    /\ pc[t] = "bswap"
    /\ ca' = [ca EXCEPT ![t] = calls]
    /\ calls' = ZeroCalls
    /\ taken' = taken + SumCalls(calls, 0)
    /\ \E ord \in TieOrders :
           res' = [res EXCEPT ![t] = CalibrateBins(calls, bins.minSize, ord)]
    /\ pc' = [pc EXCEPT ![t] = "bcond"]
    /\ UNCHANGED << calibrating, defaultSize, maxSize, pool, blen, bcap,
                    held, idx, lmax, ci, ops, hist, fnIn, fnOut,
                    added, lastLen, lastBuf, idxs, pools, bins >>

\* Whether calibrate takes its first branch, a being the counters swapped out
BinsIncrease(b, a) ==
    /\ b + steps < sizeBits
    /\ a[steps - 1] > a[0]

\* Whether calibrate takes its second branch when it has not taken the first
BinsDecrease(b, a) ==
    /\ b > defaultMinBitSize
    /\ a[0] > 0
    /\ a[steps - 2] = 0
    /\ a[steps - 1] = 0

\* calibrate: the two conditions, which read p.minBitSize
BinsCond(t) ==
    /\ pc[t] = "bcond"
    /\ pc' = [pc EXCEPT ![t] =
                 IF BinsIncrease(bins.minBitSize, ca[t]) THEN "bup"
                 ELSE IF BinsDecrease(bins.minBitSize, ca[t]) THEN "bdown"
                 ELSE "bsdef"]
    /\ UNCHANGED << calls, calibrating, defaultSize, maxSize, pool, blen,
                    bcap, held, idx, lmax, ci, ca, res, ops, hist, fnIn,
                    fnOut, added, taken, lastLen, lastBuf, idxs, pools,
                    bins >>

\* p.resizeBins(p.minBitSize + 1) or p.resizeBins(p.minBitSize - 1): the
\* argument, which reads p.minBitSize again, and resizeBins' first store.
\* ci holds resizeBins' parameter minBitSize.
BinsResizeBits(t) ==
    /\ pc[t] \in {"bup", "bdown"}
    /\ \E b \in {IF pc[t] = "bup" THEN bins.minBitSize + 1
                 ELSE bins.minBitSize - 1} :
           /\ ci' = [ci EXCEPT ![t] = b]
           /\ bins' = [bins EXCEPT !.minBitSize = b]
    /\ pc' = [pc EXCEPT ![t] = "brsize"]
    /\ UNCHANGED << calls, calibrating, defaultSize, maxSize, pool, blen,
                    bcap, held, idx, lmax, ca, res, ops, hist, fnIn,
                    fnOut, added, taken, lastLen, lastBuf, idxs, pools >>

\* resizeBins: atomic.StoreUint64(&p.minSize, 1<<minBitSize)
BinsResizeSize(t) ==
    /\ pc[t] = "brsize"
    /\ bins' = [bins EXCEPT !.minSize = 2 ^ ci[t]]
    /\ pc' = [pc EXCEPT ![t] = "bsdef"]
    /\ UNCHANGED << calls, calibrating, defaultSize, maxSize, pool, blen,
                    bcap, held, idx, lmax, ci, ca, res, ops, hist, fnIn,
                    fnOut, added, taken, lastLen, lastBuf, idxs, pools >>

\* calibrate: the stores of defaultSize and maxSize, then of calibrating
BinsStore(t) ==
    /\ pc[t] = "bsdef"
    /\ defaultSize' = res[t].defaultSize
    /\ maxSize' = res[t].maxSize
    /\ calibrating' = 0
    /\ pc' = [pc EXCEPT ![t] = "bload"]
    /\ UNCHANGED << calls, pool, blen, bcap, held, idx, lmax, ci, ca, res,
                    ops, hist, fnIn, fnOut, added, taken, lastLen, lastBuf,
                    idxs, pools, bins >>

\* Put: the load of maxSize and p.pool.Put(b) where the capacity passes
BinsAdmit(t) ==
    /\ pc[t] = "bload"
    /\ lmax' = [lmax EXCEPT ![t] = maxSize]
    /\ pool' = (IF Admits(maxSize, bcap[held[t]])
                THEN pool \cup {held[t]} ELSE pool)
    /\ held' = [held EXCEPT ![t] = 0]
    /\ pc' = [pc EXCEPT ![t] = "idle"]
    /\ UNCHANGED << calls, calibrating, defaultSize, maxSize, blen, bcap,
                    idx, ci, ca, res, ops, hist, fnIn, fnOut,
                    added, taken, lastLen, lastBuf, idxs, pools, bins >>

StepBins(t) ==
    \/ BinsPutCheck(t)
    \/ BinsInitBits(t)
    \/ BinsInitSize(t)
    \/ BinsPutAdd(t)
    \/ BinsCAS(t)
    \/ BinsSwap(t)
    \/ BinsCond(t)
    \/ BinsResizeBits(t)
    \/ BinsResizeSize(t)
    \/ BinsStore(t)
    \/ BinsAdmit(t)

NextBins == \E t \in Threads : StepBins(t)

SpecBins == InitBins /\ [][NextBins]_vars



(***************************************************************************)
(* Claims on the class mapping (SpecIndex)                                 *)
(***************************************************************************)
\* ceil(log2(max(n, 1) / minSize)) clamped to 0 .. steps - 1: the least class
\* whose size is at least max(n, 1), the last class when there is none.
ClassOfLen(n) ==
    LET m == IF n < 1 THEN 1 ELSE n
    IN  IF m > maxClassSize THEN steps - 1
        ELSE CHOOSE i \in Classes :
                 /\ m <= ClassSize(i)
                 /\ \A j \in Classes : j < i => m > ClassSize(j)

\* C4: index of the adjust variant is monotonic non-decreasing over
\* [1, maxSize], maps every class size minSize * 2^i to class i, and maps
\* minSize * 2^i + 1 to class i + 1 for every i up to steps - 2.
C4_IndexMonotoneAndBoundaryExact ==
    fnOut.kind = "index" =>
        /\ (1 <= fnIn.lo /\ fnIn.hi <= maxClassSize) => fnOut.lo <= fnOut.hi
        /\ \A i \in Classes :
               /\ fnIn.lo = ClassSize(i) => fnOut.lo = i
               /\ fnIn.hi = ClassSize(i) => fnOut.hi = i
               /\ (i <= steps - 2 /\ fnIn.lo = ClassSize(i) + 1)
                      => fnOut.lo = i + 1
               /\ (i <= steps - 2 /\ fnIn.hi = ClassSize(i) + 1)
                      => fnOut.hi = i + 1

\* A class size and the length one byte above it, mapped to neighbouring
\* classes in the middle of the range.
C4_Witness ==
    /\ fnOut.kind = "index"
    /\ fnIn.lo = ClassSize(7)
    /\ fnIn.hi = ClassSize(7) + 1
    /\ fnOut.lo = 7
    /\ fnOut.hi = 8

\* C5: the class Release of the per-class pool counts a length n in is
\* ceil(log2(max(n, 1) / minSize)) clamped to 0 .. steps - 1, for every n:
\* class 0 for n in 0 .. minSize, class steps - 1 from maxSize on.
C5_ReleaseClassIsCeilLog ==
    fnOut.kind = "release" =>
        /\ fnOut.lo = ClassOfLen(fnIn.lo)
        /\ fnOut.hi = ClassOfLen(fnIn.hi)


(***************************************************************************)
(* Claims on the concurrent pool (Spec, FairSpec)                          *)
(***************************************************************************)
\* The positions between calibrate's successful compare-and-swap and its
\* store of 0 to calibrating.
CalRegion == {"swap", "sort", "smax", "unlock"}

\* The positions inside Get and inside Put (calibrate included).
InGet == {"alloc"}

InPut == {"put", "cas", "load", "admit"} \cup CalRegion

\* C1: every buffer Get returns has length 0, fresh or reused, whatever
\* length it had when it was released.
C1_GetReturnsEmpty ==
    \A t \in Threads : pc[t] = "got" => blen[held[t]] = 0

\* Get has returned a reused buffer that a caller had grown to minSize + 1
\* bytes before releasing it.
C1_Witness ==
    \E t \in Threads :
        /\ pc[t] = "got"
        /\ hist[t] = "reused"
        /\ bcap[held[t]] = minSize + 1

\* C2: no buffer is owned by two threads at once, and no buffer is in the
\* pool's store while a thread owns it.
C2_ExclusiveOwnership ==
    /\ \A t1 \in Threads, t2 \in Threads :
           (t1 # t2 /\ held[t1] # 0) => held[t1] # held[t2]
    /\ \A t \in Threads : held[t] \notin pool

\* One thread owns a buffer it got from the pool while another thread owns
\* a buffer too.
C2_Witness ==
    \E t1 \in Threads, t2 \in Threads :
        /\ t1 # t2
        /\ pc[t1] = "got"
        /\ hist[t1] = "reused"
        /\ held[t2] # 0

\* C3: at most one thread is between the successful compare-and-swap of
\* calibrating and the store of 0 to it, and the step of a thread whose
\* compare-and-swap fails returns from calibrate and changes no counter, nor
\* defaultSize, nor maxSize.
C3_CalibrationExclusive ==
    /\ [](Cardinality({t \in Threads : pc[t] \in CalRegion}) <= 1)
    /\ [][\A t \in Threads :
             (pc[t] = "cas" /\ calibrating # 0 /\ pc'[t] # "cas")
                 => /\ pc'[t] = "load"
                    /\ calls' = calls
                    /\ defaultSize' = defaultSize
                    /\ maxSize' = maxSize
                    /\ calibrating' = calibrating]_vars

\* A thread has lost the compare-and-swap and gone on with its Put while
\* another thread calibrates.
C3_Witness ==
    \E t1 \in Threads, t2 \in Threads :
        /\ pc[t1] \in CalRegion
        /\ hist[t2] = "lost"
        /\ pc[t2] = "load"

\* C6, as claimed: in every state, a Put that ends with the buffer's
\* capacity above the pool's maxSize does not increase the number of buffers
\* the pool retains.
C6_OversizedNeverRetained ==
    [][\A t \in Threads :
          (pc[t] = "admit" /\ pc'[t] = "idle" /\ bcap[held[t]] > maxSize)
              => Cardinality(pool') <= Cardinality(pool)]_vars

\* C6, as the code has it: a Put that has loaded a maxSize other than 0 and
\* below the buffer's capacity drops the buffer, and the pool retains what it
\* retained.
C6_OversizedDroppedWhenCalibrated ==
    [][\A t \in Threads :
          (pc[t] = "admit" /\ pc'[t] = "idle"
               /\ lmax[t] # 0 /\ bcap[held[t]] > lmax[t])
              => pool' = pool]_vars

\* C6 with the maxSize of the moment in place of the one Put loaded: a
\* calibration between the load and the insertion lowers it.
C6_OversizedAgainstCurrentMax ==
    [][\A t \in Threads :
          (pc[t] = "admit" /\ pc'[t] = "idle"
               /\ maxSize # 0 /\ bcap[held[t]] > maxSize)
              => pool' = pool]_vars

\* A Put has dropped its buffer.
C6_Witness ==
    \E t \in Threads : pc[t] = "idle" /\ hist[t] = "dropped"

\* C7: under weak fairness of every thread, every started Get and every
\* started Put returns, and calibrating goes back to 0 whenever it is 1.
C7_GetPutReturnAndGuardReleased ==
    /\ \A t \in Threads : (pc[t] \in InGet) ~> (pc[t] = "got")
    /\ \A t \in Threads : (pc[t] \in InPut) ~> (pc[t] = "idle")
    /\ (calibrating = 1) ~> (calibrating = 0)

\* One thread calibrates while another is about to try the
\* compare-and-swap.
C7_Witness ==
    \E t1 \in Threads, t2 \in Threads :
        /\ pc[t1] \in CalRegion
        /\ pc[t2] = "cas"
        /\ calibrating = 1

\* C8: when every release a calibration has swapped out was of one class c
\* (the class of the release that called it, when it swapped out none), the
\* calibration sets defaultSize and maxSize to the size of class c.
C8_SingleClassSetsBothSizes ==
    \A t \in Threads : \A c \in Classes :
        (/\ pc[t] = "smax"
         /\ \A i \in Classes \ {c} : ca[t][i] = 0
         /\ (ca[t][c] > 0 \/ c = idx[t]))
            => /\ res[t].defaultSize = ClassSize(c)
               /\ res[t].maxSize = ClassSize(c)


(***************************************************************************)
(* Claims on calibrate's result (SpecCal)                                  *)
(***************************************************************************)
CalKinds == {"adjust", "rebase", "perclass"}

\* The calls of the first p elements of the sorted a.
RECURSIVE PrefixCalls(_, _)
PrefixCalls(a, p) == IF p = 0 THEN 0 ELSE a[p].calls + PrefixCalls(a, p - 1)

\* floor(callsSum * 0.95)
Cutoff(a) == (PrefixCalls(a, steps) * 95) \div 100

\* The length of the shortest prefix of a whose calls exceed the cutoff, and
\* of a itself when no prefix does (all the counts are 0).
PrefixEnd(a) ==
    LET over == {p \in 1 .. steps : PrefixCalls(a, p) > Cutoff(a)}
    IN  IF over = {} THEN steps
        ELSE CHOOSE p \in over : \A q \in over : p <= q

LargestOf(S) == CHOOSE x \in S : \A y \in S : y <= x

\* C9: after a calibration of any of the three variants, a is sorted by
\* calls descending and maxSize is the largest size among the shortest
\* prefix of a whose calls exceed floor(callsSum * 0.95), the element that
\* makes the sum exceed it included; the elements after the prefix have no
\* part in it.
C9_MaxSizeIsLargestOfPercentilePrefix ==
    fnOut.kind \in CalKinds =>
        /\ \A p \in 1 .. steps - 1 : fnOut.a[p].calls >= fnOut.a[p + 1].calls
        /\ fnOut.maxSize =
               LargestOf({fnOut.a[p].size : p \in 1 .. PrefixEnd(fnOut.a)})

\* A calibration whose prefix ends on a class larger than the top one and
\* before a still larger class that has calls.
C9_Witness ==
    /\ fnOut.kind \in CalKinds
    /\ PrefixEnd(fnOut.a) > 1
    /\ fnOut.maxSize > fnOut.a[1].size
    /\ \E p \in PrefixEnd(fnOut.a) + 1 .. steps :
           fnOut.a[p].calls > 0 /\ fnOut.a[p].size > fnOut.maxSize

\* C10: the calibration with the adjustment factor sets defaultSize to the
\* largest class whose count is above floor(top * 0.95), top being the count
\* of the top class.
C10_DefaultSizeIsLargestNearTop ==
    (fnOut.kind = "adjust" /\ fnOut.a[1].calls > 0) =>
        fnOut.defaultSize =
            LargestOf({fnOut.a[p].size : p \in
                {q \in 1 .. steps :
                    fnOut.a[q].calls > (fnOut.a[1].calls * 95) \div 100}})


(***************************************************************************)
(* Claims on the sizes and the counters (Spec, SpecSeq)                    *)
(***************************************************************************)
BoundarySizes == {minSize * (2 ^ i) : i \in 0 .. steps - 1}

AllZero(c) == \A i \in Classes : c[i] = 0

\* C11, as claimed: in every state from the zero value onward, defaultSize
\* and maxSize are each one of the sizes minSize * 2^i, i in 0 .. steps-1.
C11_SizesAreClassBoundaries ==
    defaultSize \in BoundarySizes /\ maxSize \in BoundarySizes

\* C11, as the code has it: defaultSize and maxSize are each 0 until a
\* calibration stores them, and one of the sizes minSize * 2^i from then on.
C11_SizesAreZeroOrClassBoundaries ==
    /\ [](/\ defaultSize \in BoundarySizes \cup {0}
          /\ maxSize \in BoundarySizes \cup {0})
    /\ [][/\ defaultSize # 0 => defaultSize' # 0
          /\ maxSize # 0 => maxSize' # 0]_vars

\* A calibration has stored two different class sizes.
C11_Witness ==
    /\ defaultSize \in BoundarySizes
    /\ maxSize \in BoundarySizes
    /\ maxSize > defaultSize
    /\ calibrating = 0

\* C12: the calls the calibrations have swapped out and the counters
\* together are the increments Put has made; a step lowers a counter only
\* by zeroing it, and that step is the one that puts its value in the a of
\* the calibrating thread.
C12_NoReleaseLostOrCountedTwice ==
    /\ [](taken + SumCalls(calls, 0) = added)
    /\ [][\A i \in Classes :
             \/ calls'[i] >= calls[i]
             \/ /\ calls'[i] = 0
                /\ \E t \in Threads :
                       /\ pc[t] = "swap"
                       /\ ca'[t][i] = calls[i]
                       /\ taken' = taken + calls[i]]_vars

\* A Put has counted a release while a calibration that has swapped out
\* calls is under way.
C12_Witness ==
    \E t \in Threads :
        /\ pc[t] \in CalRegion
        /\ taken > 0
        /\ \E i \in Classes : calls[i] > 0 /\ ca[t][i] > 0

\* C13: in a single-threaded execution, the Put that raises a counter above
\* calibrateCallsThreshold wins the compare-and-swap, and when its
\* calibration ends every counter is 0, defaultSize and maxSize are what
\* calibrate computes from the snapshot that holds the raised counter, and
\* calibrating is 0, which is how the Put returns; a Put that leaves its
\* counter at or below the threshold goes on without a calibration.
C13_SequentialPutCalibratesFully ==
    /\ [][(pc[1] = "put" /\ pc'[1] # "put") =>
             IF calls'[idx'[1]] > calibrateCallsThreshold
             THEN pc'[1] = "cas"
             ELSE /\ pc'[1] = "load"
                  /\ calibrating' = 0
                  /\ defaultSize' = defaultSize
                  /\ maxSize' = maxSize]_vars
    /\ [][(pc[1] = "cas" /\ pc'[1] # "cas") =>
             pc'[1] = "swap" /\ calibrating' = 1]_vars
    /\ [][(pc[1] = "unlock" /\ pc'[1] # "unlock") =>
             /\ pc'[1] = "load"
             /\ calibrating' = 0
             /\ AllZero(calls')
             /\ ca[1][idx[1]] > calibrateCallsThreshold
             /\ \E ord \in TieOrders :
                    CalibrateAdjust(SortedCallSizes(ca[1], ord),
                                    SumCalls(ca[1], 0))
                        = [defaultSize |-> defaultSize', maxSize |-> maxSize']]_vars
    /\ [](pc[1] \in {"load", "admit"} =>
             /\ calibrating = 0
             /\ \/ AllZero(calls)
                \/ calls[idx[1]] \in 1 .. calibrateCallsThreshold)

\* A Put that has calibrated is about to return.
C13_Witness ==
    /\ pc[1] = "admit"
    /\ AllZero(calls)
    /\ taken > calibrateCallsThreshold
    /\ maxSize # 0


C18_SizesChangeOnlyInCalibration ==
    [][/\ (defaultSize' # defaultSize \/ maxSize' # maxSize)
              => /\ calibrating = 1
                 /\ calibrating' = 1
                 /\ \E t \in Threads :
                        /\ pc[t] \in {"sort", "smax"}
                        /\ pc'[t] # pc[t]
                        /\ hist[t] = "won"
       /\ \A t \in Threads :
              (pc[t] \in {"idle", "alloc"} /\ pc'[t] # pc[t])
                  => /\ defaultSize' = defaultSize
                     /\ maxSize' = maxSize
                     /\ calls' = calls
       /\ \A t \in Threads :
              (pc[t] \in InPut \ CalRegion /\ pc'[t] # pc[t])
                  => /\ defaultSize' = defaultSize
                     /\ maxSize' = maxSize]_vars

\* A calibration has stored both sizes and still holds the guard, and
\* another thread's Put has lost the compare-and-swap.
C18_Witness ==
    \E t \in Threads, u \in Threads :
        /\ pc[t] = "unlock"
        /\ hist[t] = "won"
        /\ defaultSize > 0
        /\ maxSize > 0
        /\ hist[u] = "lost"
        /\ pc[u] \in {"load", "admit"}

\* The threads that are executing Put.
ThreadsInPut == {t \in Threads : pc[t] \in InPut}

\* The Puts begun so far: every Get/Put pair started but those still
\* inside Get or with the caller.
PutsBegun ==
    (MaxOps - ops) - Cardinality({t \in Threads : pc[t] \in {"alloc", "got"}})

\* C22: no counter exceeds calibrateCallsThreshold by more than the number
\* of threads executing Put, and the callsSum of a calibration's snapshot is
\* at most steps * calibrateCallsThreshold plus the number of threads.
C22_CounterWithinThreadsOfThreshold ==
    /\ \A i \in Classes :
           calls[i] <= calibrateCallsThreshold + Cardinality(ThreadsInPut)
    /\ \A t \in Threads :
           pc[t] \in {"sort", "smax", "unlock"}
               => SumCalls(ca[t], 0)
                      <= steps * calibrateCallsThreshold + NThreads

\* C22, amended: every Put that leaves its counter above
\* calibrateCallsThreshold calls calibrate, and no other Put does; a counter
\* exceeds the threshold by at most the number of Puts begun, which the
\* number of threads does not bound, and so does the callsSum of a snapshot
\* exceed steps * calibrateCallsThreshold.
C22_CounterWithinPutsOfThreshold ==
    /\ [](\A i \in Classes :
             calls[i] <= calibrateCallsThreshold + PutsBegun)
    /\ [](\A t \in Threads :
             pc[t] \in {"sort", "smax", "unlock"}
                 => SumCalls(ca[t], 0)
                        <= steps * calibrateCallsThreshold + PutsBegun)
    /\ [][\A t \in Threads :
             (pc[t] = "put" /\ pc'[t] # "put")
                 => (calls'[idx'[t]] > calibrateCallsThreshold
                        <=> pc'[t] = "cas")]_vars

\* A counter is above the threshold by more than the number of threads
\* executing Put.
C22_Witness ==
    \E i \in Classes :
        /\ calls[i] > calibrateCallsThreshold + Cardinality(ThreadsInPut)
        /\ calls[i] <= calibrateCallsThreshold + PutsBegun

\* C23: defaultSize <= maxSize in every state, the states between a
\* calibration's stores included, and so a Put of a buffer whose capacity
\* is at most defaultSize passes the check against the maxSize Put loads.
C23_DefaultSizeAtMostMaxSize ==
    /\ [](defaultSize <= maxSize)
    /\ [][\A t \in Threads :
             (pc[t] = "load" /\ pc'[t] = "admit"
                  /\ bcap[held[t]] <= defaultSize)
                 => Admits(lmax'[t], bcap[held[t]])]_vars

\* No calibration is between its store of defaultSize and its store of
\* maxSize.
NoStoreHalfDone == \A t \in Threads : pc[t] # "smax"

\* C23, amended: defaultSize <= maxSize in every state but those between a
\* calibration's store of defaultSize and its store of maxSize, and a Put
\* that loads maxSize in a state that is none of those passes the check
\* with a buffer whose capacity is at most the defaultSize of that state.
C23_DefaultSizeAtMostMaxSizeBetweenCalibrations ==
    /\ [](NoStoreHalfDone => defaultSize <= maxSize)
    /\ [][\A t \in Threads :
             (pc[t] = "load" /\ pc'[t] = "admit" /\ NoStoreHalfDone
                  /\ bcap[held[t]] <= defaultSize)
                 => Admits(lmax'[t], bcap[held[t]])]_vars

\* A Put is at its check with a buffer of the capacity Get allocates, after
\* a calibration that has adjusted defaultSize upwards.
C23_Witness ==
    \E t \in Threads :
        /\ pc[t] = "admit"
        /\ NoStoreHalfDone
        /\ defaultSize > minSize
        /\ bcap[held[t]] = defaultSize
        /\ lmax[t] = maxSize

\* C24: in every state in which maxSize is not 0, every buffer the store
\* holds has a capacity of at most maxSize.
C24_RetainedWithinCurrentMaxSize ==
    maxSize # 0 => \A b \in pool : bcap[b] <= maxSize

\* C24, amended: every buffer enters the store in a Put that loaded a
\* maxSize of 0 or of at least the buffer's capacity, and a store to
\* maxSize takes no buffer out of the store and changes no capacity: the
\* store may hold a buffer of a capacity above the current maxSize.
C24_RetainedWithinMaxSizeAtRelease ==
    /\ [][\A b \in pool' \ pool :
             \E t \in Threads :
                 /\ pc[t] = "admit"
                 /\ held[t] = b
                 /\ lmax[t] = 0 \/ bcap'[b] <= lmax[t]]_vars
    /\ [][maxSize' # maxSize => (pool' = pool /\ bcap' = bcap)]_vars

\* A calibration has stored a maxSize below the capacity of a buffer that
\* the store holds.
C24_Witness ==
    \E b \in pool :
        /\ maxSize # 0
        /\ bcap[b] > maxSize
        /\ calibrating = 0

(***************************************************************************)
(* Claims on the integer arithmetic (SpecArith)                            *)
(***************************************************************************)
\* n < 2^64, by four divisions by 2^16.
FitsUint64(n) ==
    n >= 0 /\ (((n \div 65536) \div 65536) \div 65536) \div 65536 = 0

\* floor(n * 0.95), 0.95 being 95 hundredths.
FloorOf95Hundredths(n) == (n * 95) \div 100

\* C15: maxPercentileNumer / maxPercentileDenom is 19 / 20, which is 0.95, and
\* the adjustment factor is 19 / 20, which is 1 - 0.05; for every callsSum of
\* 0 .. steps * calibrateCallsThreshold, (callsSum * 19) / 20 is
\* floor(callsSum * 0.95) and callsSum * 19 is below 2^64.
C15_IntegerPercentileIsExact ==
    /\ maxPercentileNumer = 19
    /\ maxPercentileDenom = 20
    /\ maxPercentileNumer * 100 = 95 * maxPercentileDenom
    /\ calibrateDefaultSizeAdjustmentsFactorNumer = 19
    /\ calibrateDefaultSizeAdjustmentsFactorDenom = 20
    /\ calibrateDefaultSizeAdjustmentsFactorNumer * 100
           = (100 - 5) * calibrateDefaultSizeAdjustmentsFactorDenom
    /\ fnOut.kind \in {"maxSum", "threshold"}
           => /\ fnIn.callsSum \in 0 .. (steps * calibrateCallsThreshold)
              /\ fnOut.product = fnIn.callsSum * 19
              /\ FitsUint64(fnOut.product)
              /\ fnOut.quotient = (fnIn.callsSum * 19) \div 20
              /\ fnOut.quotient = FloorOf95Hundredths(fnIn.callsSum)

C15_Witness ==
    /\ fnOut.kind = "maxSum"
    /\ fnIn.callsSum = steps * calibrateCallsThreshold
    /\ fnOut.product = 15960000
    /\ fnOut.quotient = 798000


(***************************************************************************)
(* Claims on GetLen (SpecLen)                                              *)
(***************************************************************************)
\* C16: GetLen(s) returns a buffer of length s and of capacity at least s,
\* whether the store gave none, one of capacity below s, or one of capacity
\* at least s, whose capacity the buffer returned then has.
C16_GetLenReturnsExactLength ==
    fnOut.kind = "getlen"
        => /\ pc[1] = "got"
           /\ blen[held[1]] = fnIn.s
           /\ bcap[held[1]] >= fnIn.s
           /\ (hist[1] = "reused" /\ fnIn.cap >= fnIn.s)
                  => bcap[held[1]] = fnIn.cap

C16_Witness ==
    /\ fnOut.kind = "getlen"
    /\ hist[1] = "reused"
    /\ fnIn.cap > 0
    /\ fnIn.cap < fnIn.s
    /\ blen[held[1]] = fnIn.s


(***************************************************************************)
(* Claims on the per-class pool (SpecPC)                                   *)
(***************************************************************************)
\* A step in which thread t runs Release.
ReleaseStep(t) == pc[t] = "put" /\ pc'[t] # "put"

\* C17: a Release adds one to the counter of the class of the buffer's
\* length and leaves the other counters as they are, unless it calibrates,
\* which it does where that counter passes calibrateCallsThreshold and which
\* swaps every counter to 0.
C17_ReleaseCountsClassOfLength ==
    [][\A t \in Threads :
          ReleaseStep(t) =>
              LET k == ClassOfLen(blen[held[t]])
              IN  \/ calls' = [calls EXCEPT ![k] = @ + 1]
                  \/ /\ calls[k] + 1 > calibrateCallsThreshold
                     /\ calls' = ZeroCalls
                     /\ taken' = taken + SumCalls(calls, 0) + 1]_vars

\* C19: an Acquire returns a buffer of the stores, one that idxs names
\* before its first entry of steps or more, whenever a store holds one: it
\* allocates only where every store is empty.  An Acquire whose sync.Pool
\* returned nil from a store that it read and that held a buffer is not held
\* to it.
C19_AcquireAllocatesOnlyWhenStoresEmpty ==
    [][\A t \in Threads :
          (pc[t] = "idle" /\ pc'[t] = "got") =>
              /\ hist'[t] = "reused" =>
                     \E i \in 1 .. ScanLen(idxs, 1) : held'[t] \in pools[idxs[i]]
              /\ hist'[t] = "fresh" =>
                     \/ \A k \in Classes : pools[k] = {}
                     \/ \E i \in 1 .. ScanLen(idxs, 1) : pools[idxs[i]] # {}]_vars

\* C20: a Release does not fail: the index it reads calls at and, where it
\* stores the buffer, the index it reads pools at are in 0 .. steps - 1.
C20_ReleaseIndicesInRange ==
    [][\A t \in Threads :
          ReleaseStep(t) =>
              /\ ReleaseClass(blen[held[t]]) \in Classes
              /\ (maxSize' > 0 /\ bcap[held[t]] <= maxSize')
                     => indexU(bcap[held[t]]) \in Classes
              /\ pc'[t] # "panic"]_vars

(***************************************************************************)
(* Claims on the bins of the re-basing variant (SpecBins)                  *)
(***************************************************************************)
\* The minBitSize a calibration that starts from b and swaps out the
\* counters a is to leave
ResizedBits(b, a) ==
    IF BinsIncrease(b, a) THEN b + 1
    ELSE IF BinsDecrease(b, a) THEN b - 1
    ELSE b

\* No thread is between the two stores of initBins or of resizeBins
BinsStoresWhole == \A t \in Threads : pc[t] \notin {"binit2", "brsize"}

\* C21: in the re-basing variant a calibration leaves minBitSize one more
\* than it found it when the last class's snapshot count exceeds the first
\* class's and minBitSize + steps < 32, otherwise one less when minBitSize >
\* defaultMinBitSize, the first class has calls and the top two classes have
\* none, otherwise as it found it; minSize equals 2^minBitSize, and once
\* initialised minBitSize stays within defaultMinBitSize .. (32 - steps).
\* The two invariants are read in the code's favour: of the initialised Pool
\* only, and minSize only while no initBins or resizeBins is between its two
\* stores.
C21_BinsResizeByOneStep ==
    /\ [](bins.minBitSize # 0 =>
             bins.minBitSize \in defaultMinBitSize .. (sizeBits - steps))
    /\ []((bins.minBitSize # 0 /\ BinsStoresWhole) =>
             bins.minSize = 2 ^ bins.minBitSize)
    /\ [][\A t \in Threads :
             (pc[t] = "bsdef" /\ pc'[t] = "bload") =>
                 bins.minBitSize = ResizedBits(fnIn.minBitSize, ca[t])]_vars

====
